---- MODULE Spec2Model ----
(***************************************************************************)
(* Aether Lens: the image editor's edit history (ImageEditor.tsx).         *)
(*                                                                         *)
(* The editor keeps three pieces of React state: the list `history` of     *)
(* committed EditorState snapshots, the cursor `historyIndex` into it and  *)
(* the working state `currentState` that the canvas is drawn from.  Every  *)
(* action below is one event handler together with the effects React runs  *)
(* after the re-render that the handler's state updates cause.             *)
(*                                                                         *)
(* historyIndex is 0-based as in the source; TLA+ sequences are 1-based,   *)
(* so the entry under the cursor is history[historyIndex + 1].             *)
(*                                                                         *)
(* Further down: the draw loop as a function (SpecRender), the App around  *)
(* the editor with its gallery and image generation (SpecApp), the         *)
(* simulated progress of generateImages (SpecService) and prompt           *)
(* enhancement (SpecPrompt).                                               *)
(***************************************************************************)
EXTENDS Integers, Sequences, FiniteSets, TLC

VARIABLES
  isOpen,        \* the isOpen prop (App: editingImage is not null)
  history,       \* useState<EditorState[]>
  historyIndex,  \* useState(0), 0-based cursor
  currentState,  \* useState<EditorState>, the working (live) state
  lastOp,        \* history variable: the handler that ran last and how it was called
  source,        \* what the imageUrl prop points at: a readable image or not
  image,         \* useState<HTMLImageElement | null>
  canvas,        \* the <canvas> element behind canvasRef and what was drawn on it
  onSaveArg,     \* history variable: the url handed to onSave by this session
  prompt,        \* App: useState<string>('')
  images,        \* App: useState<GeneratedImage[]>([]), the gallery, newest first
  isGenerating,  \* App: useState(false)
  isEnhancing,   \* App: useState(false)
  editingImage,  \* App: useState<GeneratedImage | null>(null)
  clock,         \* what Date.now() returns
  uuids,         \* how many ids crypto.randomUUID() has handed out
  generation,    \* the running handleGenerate / generateImages call and its closure
  progressCalls, \* history variable: the onProgress calls of the current request
  enhancement    \* the running handleEnhancePrompt call and its closure

editorVars == <<isOpen, history, historyIndex, currentState, lastOp, source, image, canvas, onSaveArg>>

appVars == <<prompt, images, isGenerating, isEnhancing, editingImage, clock, uuids,
             generation, progressCalls, enhancement>>

vars == <<isOpen, history, historyIndex, currentState, lastOp, source, image, canvas, onSaveArg,
          prompt, images, isGenerating, isEnhancing, editingImage, clock, uuids,
          generation, progressCalls, enhancement>>

(***************************************************************************)
(* Bounds of the model.                                                    *)
(***************************************************************************)
MaxHistory == 3          \* longest history explored (entries, default included)

(***************************************************************************)
(* EditorState and partial updates.                                        *)
(***************************************************************************)
Fields == {"brightness", "contrast", "saturation", "rotation", "cropRatio", "filterPreset"}

initialState ==
  [brightness   |-> 100,
   contrast     |-> 100,
   saturation   |-> 100,
   rotation     |-> 0,
   cropRatio    |-> "original",
   filterPreset |-> "none"]

\* What reading a missing array element gives: every field reads undefined.
Undefined == [f \in Fields |-> "undefined"]

\* The empty partial: commitChange() called with no argument.
NoPartial == [f \in {} |-> 0]

\* Object spread { ...s, ...p }: the fields of p win, the others come from s.
Overlay(s, p) == [f \in Fields |-> IF f \in DOMAIN p THEN p[f] ELSE s[f]]

\* Values the sliders deliver through onChange (a sample of each range).
SliderPartials ==
  {[brightness |-> 100], [brightness |-> 120], [contrast |-> 100], [contrast |-> 80]}

\* Partials of the discrete controls: slider release (no argument) and filter
\* buttons (a sample of the presets).
ClickPartials ==
  {NoPartial, [filterPreset |-> "none"], [filterPreset |-> "sepia"]}

(***************************************************************************)
(* The editor's React state as one value, and the handlers as functions    *)
(* from the state of the render they were created in to the state after    *)
(* their setState calls.                                                   *)
(***************************************************************************)
EditorSt == [history |-> history, historyIndex |-> historyIndex, currentState |-> currentState]

\* history[historyIndex] in JavaScript: undefined outside the array.
At(h, i) == IF i + 1 \in DOMAIN h THEN h[i + 1] ELSE Undefined

\* history.slice(0, historyIndex + 1)
slice_OffByOne(h, i) == SubSeq(h, 1, IF i < Len(h) THEN i ELSE Len(h))

slice(h, i) == SubSeq(h, 1, IF i + 1 < Len(h) THEN i + 1 ELSE Len(h))

pushToHistory_NoTruncate(st, newState) ==
  LET newHistory == Append(st.history, newState)
  IN  [st EXCEPT !.history = newHistory, !.historyIndex = Len(newHistory) - 1]

pushToHistory_IndexOffByOne(st, newState) ==
  LET newHistory == Append(SubSeq(st.history, 1, st.historyIndex + 1), newState)
  IN  [st EXCEPT !.history = newHistory, !.historyIndex = Len(newHistory)]

pushToHistory(st, newState) ==
  LET newHistory == Append(slice(st.history, st.historyIndex), newState)
  IN  [st EXCEPT !.history = newHistory, !.historyIndex = Len(newHistory) - 1]

handleUndo_NoGuard(st) == [st EXCEPT !.historyIndex = @ - 1]

handleUndo(st) ==
  IF st.historyIndex > 0 THEN [st EXCEPT !.historyIndex = @ - 1] ELSE st

handleRedo_NoGuard(st) == [st EXCEPT !.historyIndex = @ + 1]

handleRedo_JumpToEnd(st) ==
  IF st.historyIndex < Len(st.history) - 1
  THEN [st EXCEPT !.historyIndex = Len(st.history) - 1]
  ELSE st

handleRedo(st) ==
  IF st.historyIndex < Len(st.history) - 1 THEN [st EXCEPT !.historyIndex = @ + 1] ELSE st

updateCurrentState_FromHistory(st, partial) ==
  [st EXCEPT !.currentState = Overlay(At(st.history, st.historyIndex), partial)]

updateCurrentState_Commits(st, partial) ==
  pushToHistory([st EXCEPT !.currentState = Overlay(@, partial)], Overlay(st.currentState, partial))

updateCurrentState(st, partial) ==
  [st EXCEPT !.currentState = Overlay(@, partial)]

commitChange_FromHistory(st, partial) ==
  LET newState == Overlay(At(st.history, st.historyIndex), partial)
  IN  pushToHistory([st EXCEPT !.currentState = newState], newState)

commitChange_PushesTwice(st, partial) ==
  LET newState == Overlay(st.currentState, partial)
  IN  [pushToHistory(pushToHistory(st, newState), newState) EXCEPT !.currentState = newState]

commitChange(st, partial) ==
  LET newState == Overlay(st.currentState, partial)
  IN  [pushToHistory(st, newState) EXCEPT !.currentState = newState]

\* The reset-on-open effect body.
resetOnOpen_KeepsHistory(st) == [st EXCEPT !.currentState = initialState]

resetOnOpen(st) ==
  [st EXCEPT !.history = <<initialState>>, !.historyIndex = 0, !.currentState = initialState]

\* The "sync currentState" effect: runs after a render in which history (a new
\* array) or historyIndex changed, and then sets currentState.
syncCurrentState(old, new, newArray) ==
  IF newArray \/ new.historyIndex # old.historyIndex
  THEN [new EXCEPT !.currentState = At(new.history, new.historyIndex)]
  ELSE new

(***************************************************************************)
(* The draw loop.  Lengths are exact rationals, held as integer multiples  *)
(* of 1/Scale; Scale is divisible by every rw, rh and by 2, so the         *)
(* divisions of the crop computation are exact.                            *)
(***************************************************************************)
Scale == 2 * 9 * 16

\* cropRatio.split(':').map(Number): two numbers, or NaN for a string that is
\* not of the form "<number>:<number>".
ParseRatio(cropRatio) ==
  CASE cropRatio = "1:1"  -> [rw |-> 1,  rh |-> 1, nan |-> FALSE]
    [] cropRatio = "4:3"  -> [rw |-> 4,  rh |-> 3, nan |-> FALSE]
    [] cropRatio = "16:9" -> [rw |-> 16, rh |-> 9, nan |-> FALSE]
    [] cropRatio = "2:1"  -> [rw |-> 2,  rh |-> 1, nan |-> FALSE]
    [] OTHER              -> [rw |-> 0,  rh |-> 0, nan |-> TRUE]

\* srcH * (rw / rh) and srcW / (rw / rh) are computed in IEEE doubles.  The
\* result is the quotient n / d itself when that is a double (d a power of two,
\* or d dividing n) and the double next to it otherwise; the lengths below hold
\* the quotient and the field rounded says which of the two cases it is.
IsPowerOfTwo(d) == d \in {1, 2, 4, 8, 16}

Rounded(n, d) == ~IsPowerOfTwo(d) /\ n % d # 0

\* Step 1 of the draw loop: the source rectangle.  srcRatio > targetRatio is
\* srcW * rh > rw * srcH (also for srcH = 0, where srcRatio is Infinity or NaN).
\* With a NaN ratio the comparison is false and cropH, cropY become NaN: the
\* field nan says so and the two numbers then stand for nothing.
cropWindow_TopLeft(srcW, srcH, cropRatio) ==
  IF cropRatio = "original"
  THEN [cropX |-> 0, cropY |-> 0, cropW |-> srcW * Scale, cropH |-> srcH * Scale,
        nan |-> FALSE, rounded |-> FALSE]
  ELSE LET r == ParseRatio(cropRatio)
       IN  IF r.nan
           THEN [cropX |-> 0, cropY |-> 0, cropW |-> srcW * Scale, cropH |-> 0,
                 nan |-> TRUE, rounded |-> FALSE]
           ELSE IF srcW * r.rh > r.rw * srcH
                THEN [cropX |-> 0, cropY |-> 0,
                      cropW |-> (srcH * r.rw * Scale) \div r.rh,
                      cropH |-> srcH * Scale, nan |-> FALSE,
                      rounded |-> Rounded(srcH * r.rw, r.rh)]
                ELSE [cropX |-> 0, cropY |-> 0,
                      cropW |-> srcW * Scale,
                      cropH |-> (srcW * r.rh * Scale) \div r.rw, nan |-> FALSE,
                      rounded |-> Rounded(srcW * r.rh, r.rw)]

cropWindow_WrongSide(srcW, srcH, cropRatio) ==
  IF cropRatio = "original"
  THEN [cropX |-> 0, cropY |-> 0, cropW |-> srcW * Scale, cropH |-> srcH * Scale,
        nan |-> FALSE, rounded |-> FALSE]
  ELSE LET r == ParseRatio(cropRatio)
       IN  IF r.nan
           THEN [cropX |-> 0, cropY |-> 0, cropW |-> srcW * Scale, cropH |-> 0,
                 nan |-> TRUE, rounded |-> FALSE]
           ELSE IF srcW * r.rh < r.rw * srcH
                THEN LET cropW == (srcH * r.rw * Scale) \div r.rh
                     IN  [cropX |-> (srcW * Scale - cropW) \div 2, cropY |-> 0,
                          cropW |-> cropW, cropH |-> srcH * Scale, nan |-> FALSE,
                          rounded |-> Rounded(srcH * r.rw, r.rh)]
                ELSE LET cropH == (srcW * r.rh * Scale) \div r.rw
                     IN  [cropX |-> 0, cropY |-> (srcH * Scale - cropH) \div 2,
                          cropW |-> srcW * Scale, cropH |-> cropH, nan |-> FALSE,
                          rounded |-> Rounded(srcW * r.rh, r.rw)]

cropWindow(srcW, srcH, cropRatio) ==
  IF cropRatio = "original"
  THEN [cropX |-> 0, cropY |-> 0, cropW |-> srcW * Scale, cropH |-> srcH * Scale,
        nan |-> FALSE, rounded |-> FALSE]
  ELSE LET r == ParseRatio(cropRatio)
       IN  IF r.nan
           THEN [cropX |-> 0, cropY |-> 0, cropW |-> srcW * Scale, cropH |-> 0,
                 nan |-> TRUE, rounded |-> FALSE]
           ELSE IF srcW * r.rh > r.rw * srcH
                THEN LET cropW == (srcH * r.rw * Scale) \div r.rh
                     IN  [cropX |-> (srcW * Scale - cropW) \div 2, cropY |-> 0,
                          cropW |-> cropW, cropH |-> srcH * Scale, nan |-> FALSE,
                      rounded |-> Rounded(srcH * r.rw, r.rh)]
                ELSE LET cropH == (srcW * r.rh * Scale) \div r.rw
                     IN  [cropX |-> 0, cropY |-> (srcH * Scale - cropH) \div 2,
                          cropW |-> srcW * Scale, cropH |-> cropH, nan |-> FALSE,
                          rounded |-> Rounded(srcW * r.rh, r.rw)]

\* Step 2: rotation % 180 !== 0
isRotated_Mod360(rotation) == rotation % 360 # 0

isRotated(rotation) == rotation % 180 # 0

\* Assigning a number to canvas.width / canvas.height truncates it to an
\* integer; NaN becomes 0.
canvasSize(crop, rotation) ==
  LET w == crop.cropW \div Scale
      h == IF crop.nan THEN 0 ELSE crop.cropH \div Scale
  IN  IF isRotated(rotation)
      THEN [width |-> h, height |-> w]
      ELSE [width |-> w, height |-> h]

\* Step 3: the switch over filterPreset; a preset without a case adds nothing.
presetFilters(filterPreset) ==
  CASE filterPreset = "grayscale" -> << <<"grayscale", 100>> >>
    [] filterPreset = "sepia"     -> << <<"sepia", 100>> >>
    [] filterPreset = "invert"    -> << <<"invert", 100>> >>
    [] filterPreset = "warm"      -> << <<"sepia", 30>>, <<"saturate", 140>> >>
    [] filterPreset = "cool"      -> << <<"hue-rotate", 180>>, <<"opacity", 90>> >>
    [] filterPreset = "vintage"   -> << <<"sepia", 40>>, <<"saturate", 150>>,
                                        <<"contrast", 90>>, <<"brightness", 110>> >>
    [] filterPreset = "bw-film"   -> << <<"grayscale", 100>>, <<"contrast", 120>>,
                                        <<"brightness", 90>> >>
    [] filterPreset = "neo-noir"  -> << <<"contrast", 140>>, <<"brightness", 80>>,
                                        <<"saturate", 80>> >>
    [] filterPreset = "polaroid"  -> << <<"contrast", 80>>, <<"brightness", 120>>,
                                        <<"saturate", 120>>, <<"sepia", 20>> >>
    [] filterPreset = "dramatic"  -> << <<"contrast", 150>>, <<"brightness", 90>> >>
    [] OTHER                      -> << >>

\* The filter string as the list of its functions, in order.
filterString_PresetFirst(state) ==
  presetFilters(state.filterPreset) \o
  << <<"brightness", state.brightness>>,
     <<"contrast", state.contrast>>,
     <<"saturate", state.saturation>> >>

filterString(state) ==
  << <<"brightness", state.brightness>>,
     <<"contrast", state.contrast>>,
     <<"saturate", state.saturation>> >>
  \o presetFilters(state.filterPreset)

\* What one pass of the draw loop puts on the canvas.
draw(img, state) ==
  LET crop == cropWindow(img.naturalWidth, img.naturalHeight, state.cropRatio)
      size == canvasSize(crop, state.rotation)
  IN  [crop     |-> crop,
       width    |-> size.width,
       height   |-> size.height,
       filter   |-> filterString(state),
       rotation |-> state.rotation]

\* image === null, the unmounted canvas, and a canvas nothing was drawn on.
NoImage == [loaded |-> FALSE, naturalWidth |-> 0, naturalHeight |-> 0]

NoOutput ==
  [crop     |-> [cropX |-> 0, cropY |-> 0, cropW |-> 0, cropH |-> 0, nan |-> FALSE,
                 rounded |-> FALSE],
   width    |-> 0,
   height   |-> 0,
   filter   |-> << >>,
   rotation |-> 0]

NoCanvas == [mounted |-> FALSE, drawn |-> FALSE, out |-> NoOutput]

BlankCanvas == [mounted |-> TRUE, drawn |-> FALSE, out |-> NoOutput]

\* The image the readable source decodes to.
SourceImage == [loaded |-> TRUE, naturalWidth |-> 1000, naturalHeight |-> 500]

\* The draw-loop effect: returns early without an image or a canvas.
drawEffect_FromHistory(img, cv, st) ==
  IF ~img.loaded \/ ~cv.mounted
  THEN cv
  ELSE [cv EXCEPT !.drawn = TRUE, !.out = draw(img, At(st.history, st.historyIndex))]

drawEffect(img, cv, st) ==
  IF ~img.loaded \/ ~cv.mounted
  THEN cv
  ELSE [cv EXCEPT !.drawn = TRUE, !.out = draw(img, st.currentState)]

\* The effect's dependency list [image, currentState, isOpen].
drawDeps_ImageOnly(imageChanged, stateChanged) == imageChanged

drawDeps(imageChanged, stateChanged) == imageChanged \/ stateChanged

\* The canvas after the effects of a render that left the editor in `new` with
\* image `img`.
Paint(img, new, imageChanged, stateChanged) ==
  canvas' = IF drawDeps(imageChanged, stateChanged)
            THEN drawEffect(img, canvas, new)
            ELSE canvas

\* canvas.toDataURL('image/jpeg', 0.92): an encoding of whatever is on the canvas.
toDataURL_Committed(img, cv, st) ==
  [mime |-> "image/jpeg", quality |-> 92, drawn |-> cv.drawn,
   out |-> IF img.loaded THEN draw(img, At(st.history, st.historyIndex)) ELSE cv.out]

toDataURL(img, cv, st) ==
  [mime |-> "image/jpeg", quality |-> 92, drawn |-> cv.drawn, out |-> cv.out]

\* onSave was not called.
NotSaved ==
  [called |-> FALSE,
   url    |-> [mime |-> "", quality |-> 0, drawn |-> FALSE, out |-> NoOutput]]

\* The state the component settles in after a handler's updates were rendered.
Settle(new) ==
  /\ history' = new.history
  /\ historyIndex' = new.historyIndex
  /\ currentState' = new.currentState

\* The record kept in lastOp.
Op(name, partial) ==
  [name     |-> name,
   partial  |-> partial,
   preLen   |-> Len(history),
   preIndex |-> historyIndex,
   preLive  |-> currentState # At(history, historyIndex)]

(***************************************************************************)
(* The App around the editor (App.tsx) and the image service               *)
(* (geminiService.ts): values of their state before anything happened.     *)
(***************************************************************************)
\* editingImage = null
NoEditing == [id |-> 0]

\* No generateImages call has been made.
\* (before and survivors are history fields: the ids in the gallery when the
\* request started, and those of them the user has not removed since.)
NoGeneration ==
  [phase |-> "idle", currentProgress |-> 0, interval |-> FALSE,
   placeholderIds |-> {}, prompt |-> "", numberOfImages |-> 0,
   before |-> << >>, survivors |-> << >>]

NoCalls == [calls |-> 0, last |-> 0, completed |-> 0]

\* No handleEnhancePrompt call is running.
NoAnswer == [failed |-> FALSE, hasText |-> FALSE, text |-> ""]

NoEnhancement ==
  [phase |-> "idle", originalPrompt |-> "", answer |-> NoAnswer, promptBefore |-> ""]

\* The App's useState initial values.
AppInit ==
  /\ prompt = ""
  /\ images = << >>
  /\ isGenerating = FALSE
  /\ isEnhancing = FALSE
  /\ editingImage = NoEditing
  /\ clock = 0
  /\ uuids = 0
  /\ generation = NoGeneration
  /\ progressCalls = NoCalls
  /\ enhancement = NoEnhancement

(***************************************************************************)
(* Initial state: the component's useState initial values, editor closed.  *)
(***************************************************************************)
Init ==
  /\ isOpen = FALSE
  /\ history = <<initialState>>
  /\ historyIndex = 0
  /\ currentState = initialState
  /\ lastOp = [name |-> "init", partial |-> NoPartial, preLen |-> 1,
               preIndex |-> 0, preLive |-> FALSE]
  /\ source = "ok"
  /\ image = NoImage
  /\ canvas = NoCanvas
  /\ onSaveArg = NotSaved
  /\ AppInit

(***************************************************************************)
(* Actions: one per event, run to the end of the effects it triggers.      *)
(***************************************************************************)
\* App sets editingImage and mounts the editor with isOpen true: the state
\* hooks start from their initial values, the image starts loading, then the
\* reset effect, the sync effect and the draw loop (no image yet) run.
mountEditor ==
  /\ ~isOpen
  /\ isOpen' = TRUE
  /\ source' \in {"ok", "unreadable"}
  /\ image' = NoImage
  /\ LET new == syncCurrentState(EditorSt, resetOnOpen(EditorSt), TRUE)
     IN  /\ Settle(new)
         /\ canvas' = drawEffect(NoImage, BlankCanvas, new)
  /\ onSaveArg' = NotSaved
  /\ lastOp' = Op("open", NoPartial)

\* The editor opened on its own: the App's state is not looked at.
Open ==
  /\ mountEditor
  /\ UNCHANGED appVars

\* onClose: isOpen becomes false and the canvas goes away; no effect touches
\* the editor state.
Close ==
  /\ isOpen
  /\ isOpen' = FALSE
  /\ canvas' = NoCanvas
  /\ lastOp' = Op("close", NoPartial)
  /\ UNCHANGED <<history, historyIndex, currentState, source, image, onSaveArg>>
  /\ UNCHANGED appVars

\* img.onload: setImage(img), then the draw loop.  An unreadable source never
\* fires it (there is no onerror handler).
ImageLoad ==
  /\ isOpen
  /\ source = "ok"
  /\ ~image.loaded
  /\ image' = SourceImage
  /\ Paint(SourceImage, EditorSt, TRUE, FALSE)
  /\ lastOp' = Op("imageLoad", NoPartial)
  /\ UNCHANGED <<isOpen, history, historyIndex, currentState, source, onSaveArg>>
  /\ UNCHANGED appVars

\* The Undo button's handler.
Undo ==
  /\ isOpen
  /\ LET new == syncCurrentState(EditorSt, handleUndo(EditorSt), FALSE)
     IN  /\ Settle(new)
         /\ Paint(image, new, FALSE, new.historyIndex # historyIndex)
  /\ lastOp' = Op("undo", NoPartial)
  /\ UNCHANGED <<isOpen, source, image, onSaveArg>>
  /\ UNCHANGED appVars

\* The Redo button's handler.
Redo ==
  /\ isOpen
  /\ LET new == syncCurrentState(EditorSt, handleRedo(EditorSt), FALSE)
     IN  /\ Settle(new)
         /\ Paint(image, new, FALSE, new.historyIndex # historyIndex)
  /\ lastOp' = Op("redo", NoPartial)
  /\ UNCHANGED <<isOpen, source, image, onSaveArg>>
  /\ UNCHANGED appVars

\* updateCurrentState(partial) for a partial of the given set.
LiveUpdateWith(partials) ==
  /\ isOpen
  /\ \E partial \in partials :
       LET new == syncCurrentState(EditorSt, updateCurrentState(EditorSt, partial),
                                   updateCurrentState(EditorSt, partial).history # history)
       IN  /\ Settle(new)
           /\ Paint(image, new, FALSE, TRUE)
           /\ lastOp' = Op("liveUpdate", partial)
  /\ UNCHANGED <<isOpen, source, image, onSaveArg>>
  /\ UNCHANGED appVars

\* A slider's onChange.
LiveUpdate == LiveUpdateWith(SliderPartials)

\* commitChange(partial); history is a new array, so the sync effect runs.
CommitWithin(partial, maxHistory) ==
  /\ isOpen
  /\ historyIndex + 2 <= maxHistory
  /\ LET new == syncCurrentState(EditorSt, commitChange(EditorSt, partial), TRUE)
     IN  /\ Settle(new)
         /\ Paint(image, new, FALSE, TRUE)
  /\ lastOp' = Op("commit", partial)
  /\ UNCHANGED <<isOpen, source, image, onSaveArg>>
  /\ UNCHANGED appVars

Commit(partial) == CommitWithin(partial, MaxHistory)

\* Slider release (no argument) and the filter buttons.
CommitClick == \E partial \in ClickPartials : Commit(partial)

\* The Rotate button's argument: { rotation: currentState.rotation + 90 }
rotatePartial_Normalized(cur) == [rotation |-> (cur.rotation + 90) % 360]

rotatePartial(cur) == [rotation |-> cur.rotation + 90]

\* The Rotate button: commitChange({ rotation: currentState.rotation + 90 }).
Rotate == Commit(rotatePartial(currentState))

\* handleSave: export the canvas, hand it to onSave, then onClose.
Save ==
  /\ isOpen
  /\ canvas.mounted
  /\ onSaveArg' = [called |-> TRUE, url |-> toDataURL(image, canvas, EditorSt)]
  /\ isOpen' = FALSE
  /\ canvas' = NoCanvas
  /\ lastOp' = Op("save", NoPartial)
  /\ UNCHANGED <<history, historyIndex, currentState, source, image>>
  /\ UNCHANGED appVars

Next ==
  \/ Open
  \/ Close
  \/ ImageLoad
  \/ Undo
  \/ Redo
  \/ LiveUpdate
  \/ CommitClick
  \/ Rotate
  \/ Save

Spec == Init /\ [][Next]_vars

(***************************************************************************)
(* Properties of the edit history.                                         *)
(*                                                                         *)
(* In an action formula the unprimed variables are the state before the    *)
(* handler ran and lastOp' names the handler that ran; Cur is the entry    *)
(* under the cursor.                                                       *)
(***************************************************************************)
Cur == At(history, historyIndex)

\* C1: a commit at any cursor position leaves history = old history[0..cursor]
\* followed by the committed state, with the cursor on the new last index; a
\* redo right after a commit changes nothing.
C1_CommitTruncates ==
  [][ /\ lastOp'.name = "commit" =>
           /\ history' = Append(SubSeq(history, 1, historyIndex + 1),
                                Overlay(currentState, lastOp'.partial))
           /\ historyIndex' = Len(history') - 1
      /\ (lastOp.name = "commit" /\ lastOp'.name = "redo") =>
           /\ history' = history
           /\ historyIndex' = historyIndex
           /\ currentState' = currentState ]_vars

\* A commit made with the cursor two steps back: two entries were discarded.
C1_Witness ==
  /\ lastOp.name = "commit"
  /\ lastOp.preLen = 3
  /\ lastOp.preIndex = 0
  /\ Len(history) = 2
  /\ historyIndex = 1

\* C2: in every reachable state the history is non-empty and
\* 0 <= cursor <= length - 1.
C2_CursorInRange ==
  /\ Len(history) >= 1
  /\ historyIndex >= 0
  /\ historyIndex <= Len(history) - 1

\* A redo attempted with the cursor already on the last of several entries.
C2_Witness ==
  /\ lastOp.name = "redo"
  /\ lastOp.preLen >= 2
  /\ lastOp.preIndex = lastOp.preLen - 1
  /\ isOpen

\* C3: history[0] is the neutral default state in every reachable state.
C3_DefaultAtIndexZero ==
  /\ Len(history) >= 1
  /\ history[1] = initialState
  /\ history[1].brightness = 100
  /\ history[1].contrast = 100
  /\ history[1].saturation = 100
  /\ history[1].rotation = 0
  /\ history[1].cropRatio = "original"
  /\ history[1].filterPreset = "none"

\* A commit made from cursor 0 of a longer history: everything but index 0
\* was discarded, and the committed state differs from the default.
C3_Witness ==
  /\ lastOp.name = "commit"
  /\ lastOp.preIndex = 0
  /\ lastOp.preLen >= 2
  /\ history[2] # initialState

\* C4: undo and redo leave the history contents alone; undo moves the cursor
\* back by one when cursor > 0 and makes the entry before it current, redo
\* moves it forward by one when cursor < length - 1 and makes the entry after
\* it current; a redo right after a moving undo (and an undo right after a
\* moving redo) puts the cursor back where it was.
C4_UndoRedoInverse ==
  [][ /\ lastOp'.name = "undo" =>
           /\ history' = history
           /\ historyIndex' = (IF historyIndex > 0 THEN historyIndex - 1 ELSE historyIndex)
           /\ historyIndex > 0 => currentState' = history[historyIndex]
      /\ lastOp'.name = "redo" =>
           /\ history' = history
           /\ historyIndex' = (IF historyIndex < Len(history) - 1
                               THEN historyIndex + 1 ELSE historyIndex)
           /\ historyIndex < Len(history) - 1 => currentState' = history[historyIndex + 2]
      /\ (lastOp.name = "undo" /\ lastOp.preIndex > 0 /\ lastOp'.name = "redo") =>
           /\ historyIndex' = lastOp.preIndex
           /\ currentState' = history[lastOp.preIndex + 1]
      /\ (lastOp.name = "redo" /\ lastOp.preIndex < lastOp.preLen - 1 /\ lastOp'.name = "undo") =>
           /\ historyIndex' = lastOp.preIndex
           /\ currentState' = history[lastOp.preIndex + 1] ]_vars

\* commit(s1), commit(s2), undo, redo: the redo started from s1 and s2 is current.
C4_Witness ==
  /\ lastOp.name = "redo"
  /\ lastOp.preLen = 3
  /\ lastOp.preIndex = 1
  /\ historyIndex = 2
  /\ currentState = history[3]
  /\ history[3] # history[2]

\* C5: undo at cursor 0 and redo at the last index change neither the history
\* nor the cursor (the handlers have no failing path).
C5_BoundaryNoOp ==
  [][ /\ (lastOp'.name = "undo" /\ historyIndex = 0) =>
           /\ history' = history
           /\ historyIndex' = historyIndex
           /\ isOpen' = isOpen
      /\ (lastOp'.name = "redo" /\ historyIndex = Len(history) - 1) =>
           /\ history' = history
           /\ historyIndex' = historyIndex
           /\ isOpen' = isOpen ]_vars

\* An undo attempted at cursor 0 of a history that has later entries.
C5_Witness ==
  /\ lastOp.name = "undo"
  /\ lastOp.preIndex = 0
  /\ lastOp.preLen >= 2
  /\ historyIndex = 0

\* C6: liveUpdate leaves history and cursor exactly as they were.
C6_LiveUpdateFrame ==
  [][ lastOp'.name = "liveUpdate" =>
        /\ history' = history
        /\ historyIndex' = historyIndex ]_vars

\* A live update that made the working state differ from the committed one,
\* in a history with more than the default entry.
C6_Witness ==
  /\ lastOp.name = "liveUpdate"
  /\ lastOp.partial = [brightness |-> 120]
  /\ Len(history) >= 2
  /\ currentState.brightness = 120
  /\ Cur.brightness = 100

\* C7: after undo or redo, also when the call was a no-op at a boundary, no
\* live state is active: the effective state equals history[cursor].
C7_UndoRedoClearLive ==
  lastOp.name \in {"undo", "redo"} => currentState = Cur

\* C8 as stated: after a liveUpdate every field its partial does not name has
\* the value it has in history[cursor].
C8_LiveFromHistory ==
  lastOp.name = "liveUpdate" =>
    \A f \in Fields \ DOMAIN lastOp.partial : currentState[f] = Cur[f]

\* C8 amended: liveUpdate overlays its partial on the working state as it was
\* before the call, so a field the partial does not name keeps the value an
\* earlier uncommitted liveUpdate gave it; the base is history[cursor] only
\* when no live state was active.
C8_LiveFromWorkingState ==
  [][ lastOp'.name = "liveUpdate" =>
        /\ currentState' = Overlay(currentState, lastOp'.partial)
        /\ \A f \in Fields \ DOMAIN lastOp'.partial : currentState'[f] = currentState[f]
        /\ ~lastOp'.preLive => currentState' = Overlay(Cur, lastOp'.partial) ]_vars

\* liveUpdate({brightness: 120}) then liveUpdate({contrast: 80}): brightness is
\* still the live 120, not the committed 100.
C8_Witness ==
  /\ lastOp.name = "liveUpdate"
  /\ lastOp.preLive
  /\ lastOp.partial = [contrast |-> 80]
  /\ currentState.brightness = 120
  /\ currentState.contrast = 80
  /\ Cur.brightness = 100

\* C9 as stated: in the entry a commit adds, every field its partial does not
\* name has the value of the entry that was under the cursor before the commit.
C9_CommitFromHistory ==
  lastOp.name = "commit" =>
    \A f \in Fields \ DOMAIN lastOp.partial :
      history[historyIndex + 1][f] = history[historyIndex][f]

\* C9 amended: the entry a commit adds is the working (live) state overlaid
\* with the partial; a field changed only by earlier liveUpdate calls and not
\* named in the partial has its live value in the new entry.
C9_CommitFromWorkingState ==
  [][ lastOp'.name = "commit" =>
        /\ history'[historyIndex' + 1] = Overlay(currentState, lastOp'.partial)
        /\ \A f \in Fields \ DOMAIN lastOp'.partial :
             history'[historyIndex' + 1][f] = currentState[f] ]_vars

\* liveUpdate({brightness: 120}) then a click on the sepia filter: the new
\* entry has brightness 120 while the entry before it has 100.
C9_Witness ==
  /\ lastOp.name = "commit"
  /\ lastOp.preLive
  /\ lastOp.partial = [filterPreset |-> "sepia"]
  /\ history[historyIndex + 1].brightness = 120
  /\ history[historyIndex].brightness = 100

\* C10: after a commit no live state is active, the cursor is the last index
\* and the history has exactly (old cursor + 1) + 1 entries.
C10_AfterCommit ==
  lastOp.name = "commit" =>
    /\ historyIndex = Len(history) - 1
    /\ Len(history) = lastOp.preIndex + 2
    /\ currentState = Cur

\* A slider release after a drag, made with redo entries still ahead.
C10_Witness ==
  /\ lastOp.name = "commit"
  /\ lastOp.partial = NoPartial
  /\ lastOp.preLive
  /\ lastOp.preIndex < lastOp.preLen - 1
  /\ currentState # history[historyIndex]

(***************************************************************************)
(* Properties of the session: export, open, load and preview.              *)
(***************************************************************************)
EditOps == {"liveUpdate", "commit", "undo", "redo"}

\* C11 as stated: Save Changes exports the rendering of history[cursor],
\* whatever the live state is.
C11_ExportCommitted ==
  (lastOp.name = "save" /\ image.loaded) =>
    /\ onSaveArg.called
    /\ onSaveArg.url.out = draw(image, Cur)

\* C11 amended: Save Changes exports what is on the canvas, a JPEG of quality
\* 0.92 of the rendering of the working state: the live state when a
\* liveUpdate was applied and not committed, history[cursor] otherwise.
C11_ExportCanvas ==
  lastOp.name = "save" =>
    /\ onSaveArg.called
    /\ onSaveArg.url.mime = "image/jpeg"
    /\ onSaveArg.url.quality = 92
    /\ onSaveArg.url.drawn = image.loaded
    /\ image.loaded => onSaveArg.url.out = draw(image, currentState)
    /\ (image.loaded /\ ~lastOp.preLive) => onSaveArg.url.out = draw(image, Cur)

\* Save pressed with an uncommitted brightness change on a loaded image: the
\* export has the live brightness, the committed entry has not.
C11_Witness ==
  /\ lastOp.name = "save"
  /\ lastOp.preLive
  /\ image.loaded
  /\ onSaveArg.called
  /\ onSaveArg.url.out.filter[1] = <<"brightness", 120>>
  /\ Cur.brightness = 100

\* C12: a session that has just been opened has history = [default state],
\* cursor 0 and no live state, whatever the session before it left behind.
C12_OpenResets ==
  lastOp.name = "open" =>
    /\ isOpen
    /\ history = <<initialState>>
    /\ historyIndex = 0
    /\ currentState = initialState
    /\ currentState = Cur

\* An open that follows a session which ended with several entries, the cursor
\* off zero and an uncommitted live state.
C12_Witness ==
  /\ lastOp.name = "open"
  /\ lastOp.preLen >= 2
  /\ lastOp.preIndex >= 1
  /\ lastOp.preLive
  /\ Len(history) = 1

\* C15: with an unreadable source no session exists: the editor is not open
\* and no edit, undo, redo or export was performed on that source.
C15_NoSessionOnLoadError ==
  source = "unreadable" =>
    /\ ~isOpen
    /\ lastOp.name \notin (EditOps \cup {"save"})

\* C20: with the source loaded, the canvas shows the rendering of the
\* effective state: the live state if one is active, otherwise history[cursor].
C20_PreviewIsEffectiveState ==
  (isOpen /\ image.loaded) =>
    /\ canvas.mounted
    /\ canvas.drawn
    /\ canvas.out = draw(image, currentState)
    /\ currentState = Cur => canvas.out = draw(image, Cur)

\* An undo that moved the cursor and dropped a live state, on a loaded image:
\* the canvas shows the entry now under the cursor, which differs from the
\* entry after it.
C20_Witness ==
  /\ isOpen
  /\ image.loaded
  /\ lastOp.name = "undo"
  /\ lastOp.preIndex >= 1
  /\ lastOp.preLive
  /\ canvas.out = draw(image, Cur)
  /\ canvas.out # draw(image, history[historyIndex + 2])

\* C22: in an open session every completed edit has been rendered; a draw loop
\* that could not render does not leave the session open for further edits.
C22_RenderFailureSurfaced ==
  (isOpen /\ lastOp.name \in EditOps) => canvas.drawn

(***************************************************************************)
(* The draw loop as a function of (image, EditorState): SpecRender starts  *)
(* from any image size and any state of the bounded sets below, with a     *)
(* blank canvas, and runs the draw loop once.                              *)
(***************************************************************************)
MaxDim == 4              \* source sizes 1..MaxDim are explored, besides the sample sizes
MaxTurns == 5            \* rotations 0, 90, ..., 90 * MaxTurns are explored

RenderDims == (1 .. MaxDim) \cup {500, 600, 800, 1000}

RenderImages ==
  {[loaded |-> TRUE, naturalWidth |-> w, naturalHeight |-> h] : w \in RenderDims, h \in RenderDims}

\* The crop buttons' ratios and the filter buttons' presets.
CropRatios == {"original", "1:1", "4:3", "16:9"}

filters ==
  {"none", "grayscale", "sepia", "invert", "warm", "cool", "vintage", "bw-film",
   "neo-noir", "polaroid", "dramatic"}

RenderTones == {<<100, 100, 100>>, <<120, 80, 0>>, <<50, 150, 200>>}

RenderStates ==
  {[brightness   |-> t[1],
    contrast     |-> t[2],
    saturation   |-> t[3],
    rotation     |-> 90 * k,
    cropRatio    |-> r,
    filterPreset |-> f] : t \in RenderTones, k \in 0 .. MaxTurns, r \in CropRatios, f \in filters}

InitRender ==
  /\ isOpen = TRUE
  /\ history = <<initialState>>
  /\ historyIndex = 0
  /\ currentState \in RenderStates
  /\ lastOp = [name |-> "init", partial |-> NoPartial, preLen |-> 1,
               preIndex |-> 0, preLive |-> FALSE]
  /\ source = "ok"
  /\ image \in RenderImages
  /\ canvas = BlankCanvas
  /\ onSaveArg = NotSaved
  /\ AppInit

\* One pass of the draw loop.
Draw ==
  /\ ~canvas.drawn
  /\ Paint(image, EditorSt, TRUE, FALSE)
  /\ UNCHANGED <<isOpen, history, historyIndex, currentState, lastOp, source, image, onSaveArg>>
  /\ UNCHANGED appVars

NextRender == Draw

SpecRender == InitRender /\ [][NextRender]_vars

\* The two numbers of an enumerated crop ratio.
RatioW(r) == CASE r = "1:1" -> 1 [] r = "4:3" -> 4 [] r = "16:9" -> 16 [] OTHER -> 0

RatioH(r) == CASE r = "1:1" -> 1 [] r = "4:3" -> 3 [] r = "16:9" -> 9 [] OTHER -> 0

\* C16: the crop window is the centered one.  'original': the full source at
\* (0,0).  W/H > rw/rh: (H*rw/rh) x H at ((W - cropW)/2, 0).  Otherwise:
\* W x (W*rh/rw) at (0, (H - cropH)/2).  1000x500 with 1:1: 500x500 at (250,0).
\* (Lengths are in units of 1/Scale.)
C16_CenteredCrop ==
  canvas.drawn =>
    LET W  == image.naturalWidth
        H  == image.naturalHeight
        r  == currentState.cropRatio
        rw == RatioW(r)
        rh == RatioH(r)
        c  == canvas.out.crop
    IN  /\ ~c.nan
        /\ r = "original" =>
             /\ c.cropW = W * Scale /\ c.cropH = H * Scale
             /\ c.cropX = 0 /\ c.cropY = 0
        /\ (r # "original" /\ W * rh > rw * H) =>
             /\ c.cropW * rh = H * rw * Scale
             /\ c.cropH = H * Scale
             /\ 2 * c.cropX = W * Scale - c.cropW
             /\ c.cropY = 0
        /\ (r # "original" /\ ~(W * rh > rw * H)) =>
             /\ c.cropW = W * Scale
             /\ c.cropH * rw = W * rh * Scale
             /\ c.cropX = 0
             /\ 2 * c.cropY = H * Scale - c.cropH
        /\ (W = 1000 /\ H = 500 /\ r = "1:1") =>
             /\ c.cropW = 500 * Scale /\ c.cropH = 500 * Scale
             /\ c.cropX = 250 * Scale /\ c.cropY = 0

\* 1000x500 cropped 1:1.
C16_Witness ==
  /\ canvas.drawn
  /\ image.naturalWidth = 1000
  /\ image.naturalHeight = 500
  /\ currentState.cropRatio = "1:1"
  /\ canvas.out.crop.cropW = 500 * Scale
  /\ canvas.out.crop.cropX = 250 * Scale

\* C17: the canvas has the crop window's size (in whole pixels), with width
\* and height swapped exactly when the rotation is an odd multiple of 90, also
\* above 360: an 800x600 crop gives 600x800 at 90, 270 and 450 and 800x600 at
\* 0, 180 and 360.
C17_BoundingBoxSwap ==
  canvas.drawn =>
    LET w   == canvas.out.crop.cropW \div Scale
        h   == canvas.out.crop.cropH \div Scale
        rot == currentState.rotation
        odd == (rot \div 90) % 2 = 1
    IN  /\ rot % 90 = 0
        /\ odd  => (canvas.out.width = h /\ canvas.out.height = w)
        /\ ~odd => (canvas.out.width = w /\ canvas.out.height = h)
        /\ (w = 800 /\ h = 600 /\ rot \in {90, 270, 450}) =>
             (canvas.out.width = 600 /\ canvas.out.height = 800)
        /\ (w = 800 /\ h = 600 /\ rot \in {0, 180, 360}) =>
             (canvas.out.width = 800 /\ canvas.out.height = 600)

\* An 800x600 crop at a cumulative rotation of 450.
C17_Witness ==
  /\ canvas.drawn
  /\ canvas.out.crop.cropW = 800 * Scale
  /\ canvas.out.crop.cropH = 600 * Scale
  /\ currentState.rotation = 450
  /\ canvas.out.width = 600
  /\ canvas.out.height = 800

\* C19: the filter chain is brightness, contrast, saturate of the state, in
\* that order, followed by the preset's own list; 'none' adds nothing.
C19_BaseStageFirst ==
  canvas.drawn =>
    LET f == canvas.out.filter
        p == currentState.filterPreset
    IN  /\ Len(f) >= 3
        /\ f[1] = <<"brightness", currentState.brightness>>
        /\ f[2] = <<"contrast", currentState.contrast>>
        /\ f[3] = <<"saturate", currentState.saturation>>
        /\ SubSeq(f, 4, Len(f)) = presetFilters(p)
        /\ p = "none" => Len(f) = 3
        /\ p # "none" => Len(f) > 3
        /\ p = "sepia" => SubSeq(f, 4, Len(f)) = << <<"sepia", 100>> >>
        /\ p = "cool" => SubSeq(f, 4, Len(f)) = << <<"hue-rotate", 180>>, <<"opacity", 90>> >>

\* The vintage preset on a state with changed sliders: three base functions,
\* then the preset's four.
C19_Witness ==
  /\ canvas.drawn
  /\ currentState.filterPreset = "vintage"
  /\ currentState.brightness = 120
  /\ Len(canvas.out.filter) = 7
  /\ canvas.out.filter[1] = <<"brightness", 120>>
  /\ canvas.out.filter[4] = <<"sepia", 40>>

(***************************************************************************)
(* SpecRotate: a session in which the only commits are uses of the Rotate  *)
(* button, up to MaxRotations of them in a row, mixed with brightness      *)
(* drags, undo and redo.                                                   *)
(***************************************************************************)
MaxRotations == 4        \* longest run of rotations explored

BrightnessPartials == {[brightness |-> 100], [brightness |-> 120]}

BrightnessDrag == LiveUpdateWith(BrightnessPartials)

RotateDeep == CommitWithin(rotatePartial(currentState), MaxRotations + 1)

NextRotate ==
  \/ Open
  \/ Undo
  \/ Redo
  \/ BrightnessDrag
  \/ RotateDeep

SpecRotate == Init /\ [][NextRotate]_vars

\* C18: a use of the Rotate button adds one history entry that is the working
\* state with rotation + 90 and every other field as it was; stored rotations
\* are cumulative and not normalized: the k-th rotation in a row from the
\* default stores 90 * k (the fourth 360, not 0), and every stored rotation is
\* a non-negative multiple of 90.
C18_RotateAdds90 ==
  /\ [](\A i \in DOMAIN history :
          /\ history[i].rotation = 90 * (i - 1)
          /\ history[i].rotation >= 0
          /\ history[i].rotation % 90 = 0
          /\ i = 5 => history[i].rotation = 360)
  /\ [][ (lastOp'.name = "commit" /\ DOMAIN lastOp'.partial = {"rotation"}) =>
           /\ Len(history') = historyIndex + 2
           /\ SubSeq(history', 1, historyIndex + 1) = SubSeq(history, 1, historyIndex + 1)
           /\ history'[Len(history')].rotation = currentState.rotation + 90
           /\ history'[Len(history')].rotation = history[historyIndex + 1].rotation + 90
           /\ \A f \in Fields \ {"rotation"} :
                history'[Len(history')][f] = currentState[f] ]_vars

\* Four rotations in a row from the default, the last one made on a dragged
\* brightness: the fifth entry has rotation 360.
C18_Witness ==
  /\ lastOp.name = "commit"
  /\ lastOp.partial = [rotation |-> 360]
  /\ lastOp.preLive
  /\ Len(history) = 5
  /\ history[5].rotation = 360
  /\ history[5].brightness = 120

(***************************************************************************)
(* SpecApi: updateCurrentState and commitChange called with partials that  *)
(* the sliders and buttons never deliver: a number outside a slider's      *)
(* min/max, a preset outside the filters list, a ratio outside the crop    *)
(* buttons.  Partial<EditorState> admits the numbers; the strings pass the *)
(* type check as filterPreset: string and through `ratio as any`.          *)
(***************************************************************************)
ApiPartials ==
  {[saturation |-> 500], [brightness |-> 40],
   [filterPreset |-> "bogus"], [cropRatio |-> "2:1"]}

ApiLiveUpdate == LiveUpdateWith(ApiPartials)

ApiCommit == \E partial \in ApiPartials : Commit(partial)

NextApi ==
  \/ Open
  \/ ImageLoad
  \/ Undo
  \/ Redo
  \/ ApiLiveUpdate
  \/ ApiCommit

SpecApi == Init /\ [][NextApi]_vars

\* The sliders' min and max attributes.
InRange(state) ==
  /\ state.brightness >= 50 /\ state.brightness <= 150
  /\ state.contrast   >= 50 /\ state.contrast   <= 150
  /\ state.saturation >= 0  /\ state.saturation <= 200

Unrecognized(partial) ==
  \/ "filterPreset" \in DOMAIN partial /\ partial.filterPreset \notin filters
  \/ "cropRatio" \in DOMAIN partial /\ partial.cropRatio \notin CropRatios

C21_Deterministic ==
  canvas.drawn =>
    /\ image.loaded
    /\ canvas.out.crop = cropWindow(image.naturalWidth, image.naturalHeight,
                                    currentState.cropRatio)
    /\ canvas.out.width = canvasSize(canvas.out.crop, currentState.rotation).width
    /\ canvas.out.height = canvasSize(canvas.out.crop, currentState.rotation).height
    /\ canvas.out.filter = filterString(currentState)
    /\ canvas.out.rotation = currentState.rotation

\* The state "sepia on the default" reached twice by different routes: by a
\* redo after an undo, with a later commit of "none" in between the two.
C21_Witness ==
  /\ canvas.drawn
  /\ lastOp.name = "redo"
  /\ lastOp.preIndex + 1 = historyIndex
  /\ Len(history) = 3
  /\ historyIndex = 1
  /\ currentState = [initialState EXCEPT !.filterPreset = "sepia"]
  /\ history[3] = initialState

\* C23: a slider drag commits on release, not during the drag: every value
\* change (onChange) leaves history and the cursor as they are, and the
\* release (onMouseUp / onTouchEnd, commitChange without argument) appends
\* exactly one entry, the dragged state, after the entry under the cursor.
C23_CommitOnRelease ==
  [][ /\ lastOp'.name = "liveUpdate" =>
           /\ Len(history') = Len(history)
           /\ history' = history
           /\ historyIndex' = historyIndex
      /\ (lastOp'.name = "commit" /\ lastOp'.partial = NoPartial) =>
           /\ history' = Append(SubSeq(history, 1, historyIndex + 1), currentState)
           /\ historyIndex' = historyIndex + 1
           /\ lastOp.name = "liveUpdate" => Len(history') = lastOp.preIndex + 2 ]_vars

\* A release right after value changes of two sliders: the one new entry
\* carries both dragged values.
C23_Witness ==
  /\ lastOp.name = "commit"
  /\ lastOp.partial = NoPartial
  /\ lastOp.preLive
  /\ Len(history) = lastOp.preLen + 1
  /\ historyIndex = lastOp.preIndex + 1
  /\ history[historyIndex] = initialState
  /\ Cur.brightness = 120
  /\ Cur.contrast = 80

(***************************************************************************)
(* The crop window as a numerical result (SpecRender).                     *)
(***************************************************************************)
\* The window lies inside the W x H source and is not empty.
InsideSource(c, W, H) ==
  /\ c.cropX >= 0
  /\ c.cropY >= 0
  /\ c.cropX + c.cropW <= W * Scale
  /\ c.cropY + c.cropH <= H * Scale
  /\ c.cropW > 0
  /\ c.cropH > 0

\* The window is the whole source.
FullSource(c, W, H) ==
  /\ c.cropX = 0
  /\ c.cropY = 0
  /\ c.cropW = W * Scale
  /\ c.cropH = H * Scale

Min(a, b) == IF a < b THEN a ELSE b

\* Math.floor(Math.random() * 10) + 2
Increments == 2 .. 11

\* let currentProgress = 0; onProgress(0, ...); setInterval(..., 500)
startProgress(g) ==
  [g EXCEPT !.phase = "pending", !.currentProgress = 0, !.interval = TRUE]

\* The interval callback's effect on currentProgress.
progressTick_NoCap(g, increment) ==
  IF g.currentProgress < 90
  THEN [g EXCEPT !.currentProgress = @ + increment]
  ELSE g

progressTick(g, increment) ==
  IF g.currentProgress < 90
  THEN [g EXCEPT !.currentProgress = Min(@ + increment, 90)]
  ELSE g

\* After the await: clearInterval(progressInterval); onProgress(100, "Completed").
resolveGeneration(g) == [g EXCEPT !.phase = "resolved", !.interval = FALSE]

\* The catch block: clearInterval(progressInterval); throw error.
rejectGeneration_KeepsInterval(g) == [g EXCEPT !.phase = "rejected"]

rejectGeneration(g) == [g EXCEPT !.phase = "rejected", !.interval = FALSE]

\* One more onProgress(value, message) call noted in progressCalls.
Reported(pc, value) ==
  [calls     |-> pc.calls + 1,
   last      |-> value,
   completed |-> pc.completed + (IF value = 100 THEN 1 ELSE 0)]

\* generateImages is called.
ServiceStart ==
  /\ generation.phase # "pending"
  /\ generation' = startProgress(generation)
  /\ progressCalls' = Reported(NoCalls, 0)
  /\ UNCHANGED editorVars
  /\ UNCHANGED <<prompt, images, isGenerating, isEnhancing, editingImage, clock, uuids, enhancement>>

\* The interval fires.
ServiceTick ==
  /\ generation.interval
  /\ \E increment \in Increments :
       /\ generation' = progressTick(generation, increment)
       /\ progressCalls' = IF generation.currentProgress < 90
                           THEN Reported(progressCalls, generation'.currentProgress)
                           ELSE progressCalls
  /\ UNCHANGED editorVars
  /\ UNCHANGED <<prompt, images, isGenerating, isEnhancing, editingImage, clock, uuids, enhancement>>

\* ai.models.generateImages answers.
ServiceResolve ==
  /\ generation.phase = "pending"
  /\ generation' = resolveGeneration(generation)
  /\ progressCalls' = Reported(progressCalls, 100)
  /\ UNCHANGED editorVars
  /\ UNCHANGED <<prompt, images, isGenerating, isEnhancing, editingImage, clock, uuids, enhancement>>

\* ai.models.generateImages throws.
ServiceReject ==
  /\ generation.phase = "pending"
  /\ generation' = rejectGeneration(generation)
  /\ UNCHANGED progressCalls
  /\ UNCHANGED editorVars
  /\ UNCHANGED <<prompt, images, isGenerating, isEnhancing, editingImage, clock, uuids, enhancement>>

NextService ==
  \/ ServiceStart
  \/ ServiceTick
  \/ ServiceResolve
  \/ ServiceReject

SpecService == Init /\ [][NextService]_vars

Settled == {"resolved", "rejected"}

\* C25: within one generateImages call the values passed to onProgress never
\* decrease, the first is 0, none exceeds 90 while the request is pending, and
\* 100 is passed exactly once and only when the request succeeded.
C25_ProgressMonotone ==
  /\ [](/\ generation.phase # "idle" => progressCalls.calls >= 1
        /\ progressCalls.calls = 1 => progressCalls.last = 0
        /\ generation.phase = "pending" =>
             /\ progressCalls.last <= 90
             /\ progressCalls.last = generation.currentProgress
             /\ progressCalls.completed = 0
        /\ generation.phase = "resolved" =>
             /\ progressCalls.last = 100
             /\ progressCalls.completed = 1
        /\ generation.phase = "rejected" =>
             /\ progressCalls.last <= 90
             /\ progressCalls.completed = 0)
  /\ [][ (generation.phase = "pending" /\ progressCalls' # progressCalls) =>
           /\ progressCalls'.calls = progressCalls.calls + 1
           /\ progressCalls'.last >= progressCalls.last ]_vars

\* A successful request whose timer had reported 90 before the answer came.
C25_Witness ==
  /\ generation.phase = "resolved"
  /\ generation.currentProgress = 90
  /\ progressCalls.calls >= 10
  /\ progressCalls.last = 100
  /\ progressCalls.completed = 1

\* C26: once generateImages has resolved or rejected its interval is cleared
\* and onProgress is not called again for that request.
C26_TimerStopped ==
  /\ [](generation.phase \in Settled => ~generation.interval)
  /\ [][ (generation.phase \in Settled /\ generation'.phase \in Settled) =>
           /\ progressCalls' = progressCalls
           /\ generation' = generation ]_vars

\* A request that failed while its simulated progress was still below 90.
C26_Witness ==
  /\ generation.phase = "rejected"
  /\ ~generation.interval
  /\ progressCalls.calls >= 2
  /\ progressCalls.last < 90

(***************************************************************************)
(* Prompt enhancement: handleEnhancePrompt (App.tsx) and enhancePrompt     *)
(* (geminiService.ts).  `enhancement` is the running call: the prompt its  *)
(* closure captured, and, once it is done, what the service answered and   *)
(* what the prompt field held just before it was set.                      *)
(***************************************************************************)
\* What the user can type into the prompt field.
Prompts == {"", "cat", "dog", "owl"}

\* What the text model can do: throw, answer without text, or answer a text.
Answers ==
  {[failed |-> TRUE, hasText |-> FALSE, text |-> ""]}
  \cup {[failed |-> FALSE, hasText |-> FALSE, text |-> ""]}
  \cup {[failed |-> FALSE, hasText |-> TRUE, text |-> t] : t \in {"", "   ", "vivid", " vivid ", "lush"}}

\* String.prototype.trim on the texts above.
Trim(t) == CASE t = "   " -> "" [] t = " vivid " -> "vivid" [] OTHER -> t

\* enhancePrompt: response.text?.trim() || originalPrompt, and originalPrompt
\* from the catch block.
enhancePrompt(originalPrompt, answer) ==
  IF originalPrompt = "" THEN ""
  ELSE IF answer.failed THEN originalPrompt
  ELSE IF answer.hasText /\ Trim(answer.text) # "" THEN Trim(answer.text)
  ELSE originalPrompt

\* setPrompt(enhanced): the value replaces whatever the field holds.
setPrompt_KeepsEdits(current, captured, enhanced) ==
  IF current = captured THEN enhanced ELSE current

setPrompt(current, captured, enhanced) == enhanced

\* textarea onChange.
TypePrompt ==
  /\ \E p \in Prompts : prompt' = p
  /\ UNCHANGED editorVars
  /\ UNCHANGED <<images, isGenerating, isEnhancing, editingImage, clock, uuids,
                 generation, progressCalls, enhancement>>

\* handleEnhancePrompt up to its await (the button is disabled while
\* isEnhancing or with an empty prompt).
EnhanceStart ==
  /\ prompt # ""
  /\ ~isEnhancing
  /\ isEnhancing' = TRUE
  /\ enhancement' = [NoEnhancement EXCEPT !.phase = "pending", !.originalPrompt = prompt]
  /\ UNCHANGED editorVars
  /\ UNCHANGED <<prompt, images, isGenerating, editingImage, clock, uuids,
                 generation, progressCalls>>

\* The await returns: setPrompt(enhanced), then finally setIsEnhancing(false).
EnhanceDone ==
  /\ enhancement.phase = "pending"
  /\ \E answer \in Answers :
       /\ prompt' = setPrompt(prompt, enhancement.originalPrompt,
                              enhancePrompt(enhancement.originalPrompt, answer))
       /\ enhancement' = [enhancement EXCEPT !.phase = "done", !.answer = answer,
                                             !.promptBefore = prompt]
  /\ isEnhancing' = FALSE
  /\ UNCHANGED editorVars
  /\ UNCHANGED <<images, isGenerating, editingImage, clock, uuids, generation, progressCalls>>

NextPrompt ==
  \/ TypePrompt
  \/ EnhanceStart
  \/ EnhanceDone

SpecPrompt == Init /\ [][NextPrompt]_vars

MaxClock == 1            \* Date.now() advances at most this far
MaxUuids == 5            \* ids handed out by crypto.randomUUID()

\* The image count slider (a part of its range 1..4).
ImageCounts == {1, 2}

\* Urls: '' of a placeholder, the service's data url, the editor's export.
EmptyUrl == [kind |-> "", export |-> NotSaved.url]

ImagenUrl == [kind |-> "imagen", export |-> NotSaved.url]

CanvasUrl(export) == [kind |-> "canvas", export |-> export]

\* The n ids after the last one handed out.
FreshIds(n) == [i \in 1 .. n |-> uuids + i]

Ids(imgs) == IF imgs = << >> THEN << >> ELSE [i \in DOMAIN imgs |-> imgs[i].id]

\* prev.filter(img => !ids.includes(img.id))
Without(imgs, ids) ==
  LET Keep(img) == img.id \notin ids
  IN  SelectSeq(imgs, Keep)

Range(seq) == {seq[i] : i \in DOMAIN seq}

\* handleGenerate: the placeholders.
placeholdersFor(ids, p, now) ==
  [i \in DOMAIN ids |->
     [id |-> ids[i], url |-> EmptyUrl, prompt |-> p, timestamp |-> now,
      status |-> "loading", progress |-> 0]]

\* generateImages: the images built from the response.
generatedImages(ids, finalPrompt, now) ==
  IF ids = << >> THEN << >>
  ELSE [i \in DOMAIN ids |->
          [id |-> ids[i], url |-> ImagenUrl, prompt |-> finalPrompt, timestamp |-> now,
           status |-> "completed", progress |-> 100]]

\* setImages(prev => [...newImages, ...prev.filter(img => !placeholderIds.includes(img.id))])
replacePlaceholders_KeepsPlaceholders(prev, newImages, placeholderIds) == newImages \o prev

replacePlaceholders(prev, newImages, placeholderIds) ==
  newImages \o Without(prev, placeholderIds)

\* The onProgress callback handleGenerate passes to generateImages.
withProgress(imgs, placeholderIds, progress) ==
  LET Update(img) == IF img.id \in placeholderIds THEN [img EXCEPT !.progress = progress] ELSE img
  IN  IF imgs = << >> THEN << >> ELSE [i \in DOMAIN imgs |-> Update(imgs[i])]

\* handleSaveEditedImage(newUrl)
handleSaveEditedImage(imgs, editing, newUrl, now) ==
  LET Update(img) == IF img.id = editing.id
                     THEN [img EXCEPT !.url = newUrl, !.timestamp = now]
                     ELSE img
  IN  IF editing.id = 0 \/ imgs = << >> THEN imgs ELSE [i \in DOMAIN imgs |-> Update(imgs[i])]

\* The ids of `before` the user has not removed, after removing `gone`.
Surviving(g, gone) ==
  LET Keep(id) == id \notin gone
  IN  IF g.phase = "pending" THEN [g EXCEPT !.survivors = SelectSeq(@, Keep)] ELSE g

\* The record kept in lastOp after a handler of the App: none of the editor's.
AppOp ==
  [name |-> "app", partial |-> NoPartial, preLen |-> 1, preIndex |-> 0, preLive |-> FALSE]

\* {editingImage && <ImageEditor ... />} with editingImage null: the editor is
\* unmounted and its state hooks, image and canvas are gone.
unmountEditor ==
  /\ isOpen' = FALSE
  /\ history' = <<initialState>>
  /\ historyIndex' = 0
  /\ currentState' = initialState
  /\ source' = "ok"
  /\ image' = NoImage
  /\ canvas' = NoCanvas

\* Time passes.
TimePasses ==
  /\ clock < MaxClock
  /\ clock' = clock + 1
  /\ UNCHANGED editorVars
  /\ UNCHANGED <<prompt, images, isGenerating, isEnhancing, editingImage, uuids,
                 generation, progressCalls, enhancement>>

\* The user types a prompt.
TypeCat ==
  /\ editingImage.id = 0
  /\ prompt = ""
  /\ prompt' = "cat"
  /\ UNCHANGED editorVars
  /\ UNCHANGED <<images, isGenerating, isEnhancing, editingImage, clock, uuids,
                 generation, progressCalls, enhancement>>

\* handleGenerate up to its await, with generateImages up to its own await:
\* placeholders are prepended, onProgress(0) is called, the interval is set.
Generate ==
  /\ editingImage.id = 0
  /\ prompt # ""
  /\ ~isGenerating
  /\ \E n \in ImageCounts :
       /\ uuids + n <= MaxUuids
       /\ uuids' = uuids + n
       /\ generation' =
            [startProgress(generation) EXCEPT
               !.placeholderIds = Range(FreshIds(n)), !.prompt = prompt, !.numberOfImages = n,
               !.before = Ids(images), !.survivors = Ids(images)]
       /\ images' = withProgress(placeholdersFor(FreshIds(n), prompt, clock) \o images,
                                 Range(FreshIds(n)), 0)
  /\ isGenerating' = TRUE
  /\ progressCalls' = Reported(NoCalls, 0)
  /\ lastOp' = AppOp
  /\ UNCHANGED <<isOpen, history, historyIndex, currentState, source, image, canvas, onSaveArg>>
  /\ UNCHANGED <<prompt, isEnhancing, editingImage, clock, enhancement>>

\* The interval fires while the App is waiting: the callback updates the
\* placeholders' progress.
GenerateTickWith(increments) ==
  /\ generation.interval
  /\ isGenerating
  /\ \E increment \in increments :
       /\ generation' = progressTick(generation, increment)
       /\ IF generation.currentProgress < 90
          THEN /\ progressCalls' = Reported(progressCalls, generation'.currentProgress)
               /\ images' = withProgress(images, generation.placeholderIds,
                                         generation'.currentProgress)
          ELSE UNCHANGED <<progressCalls, images>>
  /\ lastOp' = AppOp
  /\ UNCHANGED <<isOpen, history, historyIndex, currentState, source, image, canvas, onSaveArg>>
  /\ UNCHANGED <<prompt, isGenerating, isEnhancing, editingImage, clock, uuids, enhancement>>

\* (the largest increment only)
GenerateTick == GenerateTickWith({11})

\* The service answers with k images: onProgress(100), then the placeholders
\* are replaced by the new images and isGenerating is reset.
GenerateResolve ==
  /\ generation.phase = "pending"
  /\ isGenerating
  /\ \E k \in 0 .. generation.numberOfImages :
       /\ uuids + k <= MaxUuids
       /\ uuids' = uuids + k
       /\ images' = replacePlaceholders(withProgress(images, generation.placeholderIds, 100),
                                        generatedImages(FreshIds(k), generation.prompt, clock),
                                        generation.placeholderIds)
  /\ generation' = resolveGeneration(generation)
  /\ progressCalls' = Reported(progressCalls, 100)
  /\ isGenerating' = FALSE
  /\ lastOp' = AppOp
  /\ UNCHANGED <<isOpen, history, historyIndex, currentState, source, image, canvas, onSaveArg>>
  /\ UNCHANGED <<prompt, isEnhancing, editingImage, clock, enhancement>>

\* The service throws: the placeholders are removed and isGenerating is reset.
GenerateReject ==
  /\ generation.phase = "pending"
  /\ isGenerating
  /\ images' = Without(images, generation.placeholderIds)
  /\ generation' = rejectGeneration(generation)
  /\ isGenerating' = FALSE
  /\ lastOp' = AppOp
  /\ UNCHANGED <<isOpen, history, historyIndex, currentState, source, image, canvas, onSaveArg>>
  /\ UNCHANGED <<prompt, isEnhancing, editingImage, clock, uuids, progressCalls, enhancement>>

\* handleDeleteImage(id), from the trash button of a completed image.
DeleteImage ==
  /\ editingImage.id = 0
  /\ \E i \in DOMAIN images :
       /\ images[i].status = "completed"
       /\ images' = Without(images, {images[i].id})
       /\ generation' = Surviving(generation, {images[i].id})
  /\ lastOp' = AppOp
  /\ UNCHANGED <<isOpen, history, historyIndex, currentState, source, image, canvas, onSaveArg>>
  /\ UNCHANGED <<prompt, isGenerating, isEnhancing, editingImage, clock, uuids,
                 progressCalls, enhancement>>

\* Clear All: setImages([]).
ClearAll ==
  /\ editingImage.id = 0
  /\ images # << >>
  /\ images' = << >>
  /\ generation' = Surviving(generation, Range(Ids(images)))
  /\ lastOp' = AppOp
  /\ UNCHANGED <<isOpen, history, historyIndex, currentState, source, image, canvas, onSaveArg>>
  /\ UNCHANGED <<prompt, isGenerating, isEnhancing, editingImage, clock, uuids,
                 progressCalls, enhancement>>

\* handleEditImage(img), from the Edit button of a completed image: the
\* editor is mounted on it.
EditImage ==
  /\ editingImage.id = 0
  /\ \E i \in DOMAIN images :
       /\ images[i].status = "completed"
       /\ editingImage' = images[i]
  /\ mountEditor
  /\ UNCHANGED <<prompt, images, isGenerating, isEnhancing, clock, uuids,
                 generation, progressCalls, enhancement>>

\* The editor's X button: onClose = setEditingImage(null).
CancelEdit ==
  /\ editingImage.id # 0
  /\ isOpen
  /\ editingImage' = NoEditing
  /\ unmountEditor
  /\ lastOp' = AppOp
  /\ UNCHANGED onSaveArg
  /\ UNCHANGED <<prompt, images, isGenerating, isEnhancing, clock, uuids,
                 generation, progressCalls, enhancement>>

\* Save Changes: handleSave exports the canvas and calls onSave, which is
\* handleSaveEditedImage, and then onClose.
SaveChanges ==
  /\ editingImage.id # 0
  /\ isOpen
  /\ canvas.mounted
  /\ onSaveArg' = [called |-> TRUE, url |-> toDataURL(image, canvas, EditorSt)]
  /\ images' = handleSaveEditedImage(images, editingImage,
                                     CanvasUrl(toDataURL(image, canvas, EditorSt)), clock)
  /\ editingImage' = NoEditing
  /\ unmountEditor
  /\ lastOp' = AppOp
  /\ UNCHANGED <<prompt, isGenerating, isEnhancing, clock, uuids,
                 generation, progressCalls, enhancement>>

NextApp ==
  \/ TimePasses
  \/ TypeCat
  \/ Generate
  \/ GenerateTick
  \/ GenerateResolve
  \/ GenerateReject
  \/ DeleteImage
  \/ ClearAll
  \/ EditImage
  \/ ImageLoad
  \/ CancelEdit
  \/ SaveChanges

SpecApp == Init /\ [][NextApp]_vars

(***************************************************************************)
(* Claims about the App (SpecApp).                                         *)
(***************************************************************************)
\* The step in which Save Changes ran: the editor closes and onSave was called.
SaveStep == isOpen /\ ~isOpen' /\ onSaveArg'.called

\* C24: Save Changes updates exactly the gallery image being edited: its url
\* becomes the exported data URL, its prompt and timestamp (and every other
\* field) keep their values, every other image is unchanged, and the editor
\* is closed.
C24_SaveKeepsMetadata ==
  [][ SaveStep =>
        /\ editingImage'.id = 0
        /\ ~isOpen'
        /\ Len(images') = Len(images)
        /\ \A i \in DOMAIN images :
             images'[i] = IF images[i].id = editingImage.id
                          THEN [images[i] EXCEPT !.url = CanvasUrl(onSaveArg'.url)]
                          ELSE images[i] ]_vars

\* C27: when a generation request finishes, by success or failure and whatever
\* was deleted or cleared meanwhile, none of its placeholders is left in the
\* gallery, isGenerating is false, and the images that were in the gallery
\* before the request and were not removed by the user are there in their
\* original order; no loading placeholder is in the gallery while nothing is
\* being generated.
C27_PlaceholdersGone ==
  /\ [](~isGenerating => \A i \in DOMAIN images : images[i].status = "completed")
  /\ [][ (generation.phase = "pending" /\ generation'.phase \in Settled) =>
           LET Old(id) == id \in Range(generation.before)
           IN  /\ ~isGenerating'
               /\ \A i \in DOMAIN images' :
                    /\ images'[i].id \notin generation.placeholderIds
                    /\ images'[i].status = "completed"
               /\ SelectSeq(Ids(images'), Old) = generation'.survivors
               /\ generation'.before = generation.before ]_vars

\* A request that finished after the user had deleted one of the two images
\* that were there before it: the other one is still in the gallery.
C27_Witness ==
  /\ generation.phase \in Settled
  /\ ~isGenerating
  /\ Len(generation.before) = 2
  /\ generation.survivors = <<generation.before[2]>>
  /\ images # << >>
  /\ images[Len(images)].id = generation.before[2]

\* C29: Save Changes exports only a rendering of the loaded source: when the
\* editor is left while the source image is not loaded (still loading, or it
\* failed to load), no image is exported and the gallery is as it was.
C29_NoExportWithoutImage ==
  [][ (isOpen /\ ~image.loaded /\ ~isOpen') =>
        /\ ~onSaveArg'.called
        /\ images' = images ]_vars

====
